---- MODULE Spec2Model ----
(***************************************************************************)
(* Model of I2T2/io.py: the dicom_dataframe class (directory scan, tag     *)
(* population, filtering, ordering along the slice normal, stacking) and   *)
(* the get_plane classifier.                                               *)
(*                                                                         *)
(* Numbers: direction cosines are fixed-point tenths (10 stands for 1.0),  *)
(* so that round() has something to round; positions are integers.  A      *)
(* position along the normal is therefore scaled by 100, which leaves the  *)
(* order of slices untouched.                                              *)
(***************************************************************************)
EXTENDS Integers, Sequences, FiniteSets, TLC

\* Largest number of entries os.listdir returns for the scanned directory.
MaxFiles == 3

(*************************** values held in cells **************************)

\* Python None, as returned by _get_tag_from_loaded_dicom and _read_dicom_from_file.
None == [kind |-> "none", s |-> "", v |-> <<>>]

Str(x) == [kind |-> "str", s |-> x, v |-> <<>>]

Vec(t) == [kind |-> "vec", s |-> "", v |-> t]

Num(n) == [kind |-> "num", s |-> "", v |-> <<n>>]

\* A 2D pixel buffer of the given shape, every pixel holding val.
Arr(rows, cols, val) == [kind |-> "arr", s |-> "", v |-> <<rows, cols, val>>]

(***************************** the file system *****************************)

\* A decoded DICOM dataset: its elements by keyword, and its pixel_array.
Dataset(tags, pixels) == [ok |-> TRUE, tags |-> tags, pixel_array |-> pixels]

\* What _read_dicom_from_file returns when pydicom.dcmread raises.
NoDataset == [ok |-> FALSE, tags |-> [t \in {} |-> None], pixel_array |-> None]

Axial == Vec(<<10, 0, 0, 0, 10, 0>>)

Coronal == Vec(<<10, 0, 0, 0, 0, 10>>)

\* The files a scanned directory may hold: name (as characters) and what
\* pydicom.dcmread makes of the content.
FileCatalog ==
  { [name |-> <<"1", ".", "d", "c", "m">>,
     ds |-> Dataset([SeriesInstanceUID |-> Str("A"), ImageOrientationPatient |-> Axial,
                     ImagePositionPatient |-> Vec(<<0, 0, 1>>),
                     SeriesDescription |-> Str("T1")], Arr(1, 1, 11))],
    [name |-> <<"2", ".", "D", "C", "M">>,
     ds |-> Dataset([SeriesInstanceUID |-> Str("A"), ImageOrientationPatient |-> Axial,
                     ImagePositionPatient |-> Vec(<<0, 0, 2>>),
                     SeriesDescription |-> Str("T2")], Arr(2, 1, 12))],
    [name |-> <<"3", ".", "d", "c", "m">>,
     ds |-> Dataset([SeriesInstanceUID |-> Str("B"), ImageOrientationPatient |-> Coronal,
                     ImagePositionPatient |-> Vec(<<0, -3, 0>>),
                     SeriesDescription |-> Str("T1")], Arr(1, 1, 13))],
    [name |-> <<"4", ".", "d", "c", "m">>,
     ds |-> Dataset([ImageOrientationPatient |-> Axial,
                     ImagePositionPatient |-> Vec(<<5, 0, 1>>)], Arr(1, 1, 14))],
    [name |-> <<"5", ".", "D", "c", "m">>,
     ds |-> Dataset([ImageOrientationPatient |-> Axial,
                     ImagePositionPatient |-> Vec(<<0, 0, 3>>),
                     SeriesDescription |-> Str("T2")], Arr(1, 1, 15))],
    [name |-> <<"6", ".", "d", "c", "m">>,
     ds |-> Dataset([SeriesInstanceUID |-> Str("A"),
                     SeriesDescription |-> Str("T1")], Arr(1, 1, 16))],
    [name |-> <<"n", ".", "t", "x", "t">>, ds |-> NoDataset] }

\* The extension strings a caller passes ('dcm' is the default of __init__);
\* "." is in every name of the catalog, "mat" in none.
Extensions == { <<"d", "c", "m">>, <<"D", "C", "M">>, <<".">>, <<"m", "a", "t">> }

\* The DICOM keywords callers ask for.
TagNames == {"SeriesInstanceUID", "SeriesDescription"}

(******************************* str helpers *******************************)

\* str.lower on one character.
LowerChar(c) ==
  CASE c = "D" -> "d" [] c = "C" -> "c" [] c = "M" -> "m" [] c = "T" -> "t"
    [] c = "X" -> "x" [] c = "A" -> "a" [] c = "N" -> "n" [] OTHER -> c

\* str.lower
Lower(str) == [i \in 1..Len(str) |-> LowerChar(str[i])]

\* Python's  sub in str  on strings.
Contains(sub, str) ==
  \E k \in 0..(Len(str) - Len(sub)) : \A i \in 1..Len(sub) : str[k + i] = sub[i]

(********************************* geometry ********************************)

\* _get_tag_from_loaded_dicom: dcm[tag].value, or None (after printing) when
\* the lookup raises: the element is absent, or dcm itself is None.
get_tag_from_loaded_dicom(dcm, tag) ==
  IF dcm.ok /\ tag \in DOMAIN dcm.tags THEN dcm.tags[tag] ELSE None

\* The line printed by _get_tag_from_loaded_dicom when the lookup raises.
TagNotFound(tag) == [msg |-> "tag was not found! Skipping...", about |-> tag]

\* _get_normal_from_dicom_slice raises TypeError (iterating None) when the
\* slice has no ImageOrientationPatient.
get_normal_raises(dcm) == get_tag_from_loaded_dicom(dcm, "ImageOrientationPatient") = None

\* _get_normal_from_dicom_slice: cross product of the row and column cosines.
get_normal_from_dicom_slice(dcm) ==
  LET cosines == get_tag_from_loaded_dicom(dcm, "ImageOrientationPatient").v
  IN  << cosines[2] * cosines[6] - cosines[3] * cosines[5],
         cosines[3] * cosines[4] - cosines[1] * cosines[6],
         cosines[1] * cosines[5] - cosines[2] * cosines[4] >>

\* np.inner on two 3-vectors.
inner(a, b) == a[1] * b[1] + a[2] * b[2] + a[3] * b[3]

\* _get_dicom_slice_IPP_along_normal raises TypeError when the slice has no
\* ImagePositionPatient (line 99) or no ImageOrientationPatient (line 80).
IPP_along_normal_raises(dcm) ==
  \/ get_tag_from_loaded_dicom(dcm, "ImagePositionPatient") = None
  \/ get_normal_raises(dcm)

\* Variant of _get_dicom_slice_IPP_along_normal that takes the raw z of the
\* position instead of projecting on the normal.
IPP_raw_z(dcm) == get_tag_from_loaded_dicom(dcm, "ImagePositionPatient").v[3] * 100

\* _get_dicom_slice_IPP_along_normal
get_dicom_slice_IPP_along_normal(dcm) ==
  LET IPP == get_tag_from_loaded_dicom(dcm, "ImagePositionPatient").v
  IN  inner(get_normal_from_dicom_slice(dcm), IPP)

\* Python 3 round() of a number given in tenths: nearest integer, halves to even.
round(x) ==
  LET q == x \div 10
      r == x % 10
  IN  IF r < 5 THEN q
      ELSE IF r > 5 THEN q + 1
      ELSE IF q % 2 = 0 THEN q ELSE q + 1

\* np.cross on two 3-vectors.
cross(a, b) ==
  << a[2] * b[3] - a[3] * b[2], a[3] * b[1] - a[1] * b[3], a[1] * b[2] - a[2] * b[1] >>

abs(x) == IF x < 0 THEN 0 - x ELSE x

\* hasattr(dcm, 'ImageOrientationPatient')
has_orientation(dcm) == dcm.ok /\ "ImageOrientationPatient" \in DOMAIN dcm.tags

\* Variant of get_plane that tests the components in the order z, y, x.
get_plane_z_first(dcm) ==
  LET IOP       == get_tag_from_loaded_dicom(dcm, "ImageOrientationPatient").v
      IOP_round == [i \in 1..6 |-> round(IOP[i])]
      c         == cross(SubSeq(IOP_round, 1, 3), SubSeq(IOP_round, 4, 6))
      plane     == [i \in 1..3 |-> abs(c[i])]
  IN  IF plane[3] = 1 THEN "axial"
      ELSE IF plane[2] = 1 THEN "coronal"
      ELSE IF plane[1] = 1 THEN "sagittal"
      ELSE "Oblique acquisition (hope for the best)."

\* get_plane, for a dcm that has the attribute.
get_plane(dcm) ==
  LET IOP       == get_tag_from_loaded_dicom(dcm, "ImageOrientationPatient").v
      IOP_round == [i \in 1..6 |-> round(IOP[i])]
      c         == cross(SubSeq(IOP_round, 1, 3), SubSeq(IOP_round, 4, 6))
      plane     == [i \in 1..3 |-> abs(c[i])]
  IN  IF plane[1] = 1 THEN "sagittal"
      ELSE IF plane[2] = 1 THEN "coronal"
      ELSE IF plane[3] = 1 THEN "axial"
      ELSE "Oblique acquisition (hope for the best)."

(******************************** exceptions *******************************)

\* An exception: its Python type and the name its message carries.
Exc(type, name) == [type |-> type, name |-> name]

NoError == Exc("", "")

\* raise ValueError('Empty dataframe! Incorrect dicom extension?')
EmptyDataframe == Exc("ValueError", "Empty dataframe!")

\* random.sample(list_of_paths, 1) on an empty list.
SampleLargerThanPopulation == Exc("ValueError", "Sample larger than population")

\* df['pathname'].str on a column that holds no strings.
StrAccessor == Exc("AttributeError", "Can only use .str accessor with string values!")

\* The use of df_column after the except branch of line 187 left it unbound.
UnboundLocal == Exc("UnboundLocalError", "df_column")

\* [float(i) for i in None]
NoneNotIterable == Exc("TypeError", "'NoneType' object is not iterable")

\* None.pixel_array
NoPixelArray == Exc("AttributeError", "'NoneType' object has no attribute 'pixel_array'")

\* np.dstack of no arrays.
NothingToStack == Exc("ValueError", "need at least one array to concatenate")

\* np.dstack of arrays whose first two dimensions differ.
DimensionsMismatch == Exc("ValueError", "all the input array dimensions must match exactly")

\* raise KeyError('ImageOrientationPatient not in dicom')
OrientationMissing == Exc("KeyError", "ImageOrientationPatient not in dicom")

(******************************* the dataframe *****************************)

\* self.dataframe: rows in positional order, each with its index label, the
\* 'DS' cell and the cells of the other columns; columns names the other columns.
DataFrame(rows, columns) == [rows |-> rows, columns |-> columns]

\* _read_dicom_from_file: the dataset, or None when dcmread raises.
read_dicom_from_file(file) == file.ds

\* _get_dcm_paths_from_folderpath: the listed names that contain the
\* extension, both lowered, in listing order.
get_dcm_paths_from_folderpath(filenames_list, dicom_extension) ==
  SelectSeq(filenames_list, LAMBDA f : Contains(Lower(dicom_extension), Lower(f.name)))

\* df[column] = values, values[i] going to the row at position i.
SetColumn(df, column, values) ==
  DataFrame([i \in 1..Len(df.rows) |->
               [df.rows[i] EXCEPT !.cells =
                  [c \in (DOMAIN df.rows[i].cells) \cup {column} |->
                     IF c = column THEN values[i] ELSE df.rows[i].cells[c]]]],
            df.columns \cup {column})

\* df['DS'].apply(lambda x: _get_tag_from_loaded_dicom(x, tag))
TagColumn(df, tag) ==
  [i \in 1..Len(df.rows) |-> get_tag_from_loaded_dicom(df.rows[i].DS, tag)]

\* Variant of populate_dataframe that gives up at the first tag some row lacks.
RECURSIVE populate_aborting(_, _)
populate_aborting(df, tags_list) ==
  IF tags_list = <<>> THEN df
  ELSE IF \E i \in 1..Len(df.rows) :
             get_tag_from_loaded_dicom(df.rows[i].DS, Head(tags_list)) = None
  THEN df
  ELSE populate_aborting(
         SetColumn(df, Head(tags_list), TagColumn(df, Head(tags_list))),
         Tail(tags_list))

\* populate_dataframe: one column per requested tag, in the order given.
RECURSIVE populate_dataframe(_, _)
populate_dataframe(df, tags_list) ==
  IF tags_list = <<>> THEN df
  ELSE populate_dataframe(
         SetColumn(df, Head(tags_list), TagColumn(df, Head(tags_list))),
         Tail(tags_list))

\* What populate_dataframe prints: one line per (tag, row) whose lookup raised.
populate_prints(df, tags_list) ==
  { TagNotFound(tags_list[k]) : k \in
      { j \in 1..Len(tags_list) :
          \E i \in 1..Len(df.rows) :
             ~(df.rows[i].DS.ok /\ tags_list[j] \in DOMAIN df.rows[i].DS.tags) } }

\* Series == value on one cell: comparing with None, or a None cell, is False.
CellEquals(cell, value) == cell # None /\ value # None /\ cell = value

\* Variant of the filter that also keeps the rows whose cell is None.
filter_keeping_null(df, column, value) ==
  DataFrame(SelectSeq(df.rows, LAMBDA r : r.cells[column] = None \/ r.cells[column] = value),
            df.columns)

\* self.dataframe[df_column == value]: the rows whose cell matches, order
\* and index labels kept.
filter_dataframe_by_column_value(df, column, value) ==
  DataFrame(SelectSeq(df.rows, LAMBDA r : CellEquals(r.cells[column], value)), df.columns)

\* The number held in a row's cell.
CellNum(r, column) == r.cells[column].v[1]

\* DataFrame.sort_values(column) with the default kind='quicksort': every
\* arrangement of the rows that is ascending in the column.  The default sort
\* is not stable, so rows with equal cells may come out in any order.
sort_values(df, column) ==
  LET n == Len(df.rows)
  IN  { DataFrame([i \in 1..n |-> df.rows[p[i]]], df.columns) :
          p \in { q \in Permutations(1..n) :
                    \A i \in 1..n, j \in 1..n :
                       i < j => CellNum(df.rows[q[i]], column) <= CellNum(df.rows[q[j]], column) } }

\* sort_dataframe_by_IPP_normal raises when any row has no position or orientation.
sort_raises(df) == \E i \in 1..Len(df.rows) : IPP_along_normal_raises(df.rows[i].DS)

\* sort_dataframe_by_IPP_normal: the dataframes it may leave in self.dataframe.
\* The reset_index(drop=True) of line 198 is not assigned, so labels stay.
sort_dataframe_by_IPP_normal(df) ==
  sort_values(SetColumn(df, "ImagePositionPatient_normal",
                        [i \in 1..Len(df.rows) |->
                           Num(get_dicom_slice_IPP_along_normal(df.rows[i].DS))]),
              "ImagePositionPatient_normal")

\* The two warnings of get_pixel_data.
SeriesNotFound == [msg |-> "Warning: SeriesInstanceUID not found in dataset.",
                   about |-> "SeriesInstanceUID"]

MultipleSeries == [msg |-> "Warning: Multiple series found in dataframe.",
                   about |-> "SeriesInstanceUID"]

\* Lines 210-214: what get_pixel_data prints before sorting.
series_warnings(df) ==
  IF Len(df.rows) > 1
  THEN IF "SeriesInstanceUID" \notin df.columns THEN {SeriesNotFound}
       ELSE IF Cardinality({ df.rows[i].cells["SeriesInstanceUID"] : i \in 1..Len(df.rows) }) > 1
            THEN {MultipleSeries}
            ELSE {}
  ELSE {}

\* np.dstack raises when the arrays differ in rows or columns.
dstack_raises(df) ==
  \E i \in 1..Len(df.rows), j \in 1..Len(df.rows) :
     \/ df.rows[i].cells["PixelArray"].v[1] # df.rows[j].cells["PixelArray"].v[1]
     \/ df.rows[i].cells["PixelArray"].v[2] # df.rows[j].cells["PixelArray"].v[2]

\* np.dstack(np.asarray(self.dataframe.PixelArray)): the planes, in row order.
dstack(df) == [i \in 1..Len(df.rows) |-> df.rows[i].cells["PixelArray"]]

(******************************** operations *******************************)

\* What one call leaves behind: the dataframe, the exception raised (NoError
\* when the call returned), the lines printed and the value returned.
Outcome(df, err, log, volume) == [df |-> df, err |-> err, log |-> log, volume |-> volume]

NoFrame == DataFrame(<<>>, {})

\* The tags __init__ populates (lines 159-160).
InitTags == <<"SeriesInstanceUID", "ImagePositionPatient">>

\* The dataframe of lines 154-160 for a non-empty list of paths: one row per
\* path, labelled 0, 1, ..., then the two initial columns.
init_dataframe(list_of_paths) ==
  populate_dataframe(
    DataFrame([i \in 1..Len(list_of_paths) |->
                 [index |-> i - 1, DS |-> read_dicom_from_file(list_of_paths[i]),
                  cells |-> [c \in {} |-> None]]], {}),
    InitTags)

\* dicom_dataframe.__init__: the outcomes of constructing the object.
\*  - random.sample draws any one path, and raises on an empty list;
\*  - on an empty list the 'pathname' column holds no strings: depending on the
\*    dtype pandas gives the empty column, .str raises (line 148) or the
\*    emptiness check of line 150 is reached and raises.
dicom_dataframe_init(filenames_list, dicom_extension, read_single_random_dcm) ==
  LET matched == get_dcm_paths_from_folderpath(filenames_list, dicom_extension)
      samples == IF read_single_random_dcm
                 THEN { <<matched[i]>> : i \in 1..Len(matched) }
                 ELSE { matched }
  IN  IF read_single_random_dcm /\ matched = <<>>
      THEN { Outcome(NoFrame, SampleLargerThanPopulation, {}, <<>>) }
      ELSE IF matched = <<>>
      THEN { Outcome(NoFrame, e, {}, <<>>) : e \in {StrAccessor, EmptyDataframe} }
      ELSE { Outcome(init_dataframe(list_of_paths), NoError,
                     populate_prints(init_dataframe(list_of_paths), InitTags), <<>>) :
               list_of_paths \in samples }

\* The line printed by the except branch of filter_dataframe_by_column_value.
ColumnNotFound(column) == [msg |-> "Could not find column in dataframe.", about |-> column]

\* filter_dataframe_by_column_value as a call: an unknown column is caught and
\* printed, and line 190 then reads the unbound df_column.
filter_call(df, column, value) ==
  IF column \notin df.columns
  THEN Outcome(df, UnboundLocal, {ColumnNotFound(column)}, <<>>)
  ELSE Outcome(filter_dataframe_by_column_value(df, column, value), NoError, {}, <<>>)

\* Line 218 on a dataframe that holds the PixelArray column.
stack(df, log) ==
  IF Len(df.rows) = 0 THEN Outcome(df, NothingToStack, log, <<>>)
  ELSE IF dstack_raises(df) THEN Outcome(df, DimensionsMismatch, log, <<>>)
  ELSE Outcome(df, NoError, log, dstack(df))

\* get_pixel_data: the outcomes of one call.
get_pixel_data(df) ==
  IF \E i \in 1..Len(df.rows) : ~df.rows[i].DS.ok
  THEN { Outcome(df, NoPixelArray, {}, <<>>) }
  ELSE LET withPixels == SetColumn(df, "PixelArray",
                                   [i \in 1..Len(df.rows) |-> df.rows[i].DS.pixel_array])
           log        == series_warnings(withPixels)
       IN  IF Len(withPixels.rows) > 1
           THEN IF sort_raises(withPixels)
                THEN { Outcome(withPixels, NoneNotIterable, log, <<>>) }
                ELSE { stack(sorted, log) : sorted \in sort_dataframe_by_IPP_normal(withPixels) }
           ELSE { stack(withPixels, log) }

\* sort_dataframe_by_IPP_normal as a call.
sort_call(df) ==
  IF sort_raises(df)
  THEN { Outcome(df, NoneNotIterable, {}, <<>>) }
  ELSE { Outcome(sorted, NoError, {}, <<>>) : sorted \in sort_dataframe_by_IPP_normal(df) }

\* get_plane as a call: the plane, or the KeyError of line 246.
get_plane_call(dcm) ==
  IF has_orientation(dcm)
  THEN [plane |-> get_plane(dcm), err |-> NoError]
  ELSE [plane |-> "", err |-> OrientationMissing]

(********************************** state **********************************)

VARIABLES
  listing,    \* what os.listdir returns for the directory: files, in its order
  phase,      \* "Empty" before __init__, "Loaded" after it, "Failed" when it raised,
              \* "Plane" when the run is a get_plane call
  dataframe,  \* self.dataframe
  loaded,     \* the rows __init__ put in self.dataframe
  last,       \* the last call: its name, arguments and Outcome fields
  gp          \* the get_plane call: its argument and result

vars == <<listing, phase, dataframe, loaded, last, gp>>

\* The record of a call.
Call(op, dicom_extension, column, value, tags_list, out) ==
  [op |-> op, dicom_extension |-> dicom_extension, column |-> column, value |-> value,
   tags_list |-> tags_list,
   ok |-> out.err = NoError, err |-> out.err, log |-> out.log, volume |-> out.volume]

NoCall == Call("", <<>>, "", None, <<>>, Outcome(NoFrame, NoError, {}, <<>>))

NoPlane == [dcm |-> NoDataset, done |-> FALSE, plane |-> "", err |-> NoError]

\* The listings: up to MaxFiles distinct catalog files, in any order.
Listings ==
  UNION { { l \in [1..n -> FileCatalog] : \A i \in 1..n, j \in 1..n : i # j => l[i] # l[j] } :
          n \in 0..MaxFiles }

\* The tag lists callers pass to populate_dataframe.
TagLists == { <<"SeriesDescription">>, <<"SeriesInstanceUID", "SeriesDescription">> }

\* The values callers filter by.
FilterValues == { Str("A"), Str("T1"), None }

Init ==
  /\ listing \in Listings
  /\ phase = "Empty"
  /\ dataframe = NoFrame
  /\ loaded = <<>>
  /\ last = NoCall
  /\ gp = NoPlane

\* dicom_dataframe(path, dicom_extension, read_single_random_dcm)
Load(dicom_extension, read_single_random_dcm) ==
  /\ phase = "Empty"
  /\ \E out \in dicom_dataframe_init(listing, dicom_extension, read_single_random_dcm) :
        /\ phase' = IF out.err = NoError THEN "Loaded" ELSE "Failed"
        /\ dataframe' = out.df
        /\ loaded' = out.df.rows
        /\ last' = Call(IF read_single_random_dcm THEN "load_random" ELSE "load",
                        dicom_extension, "", None, <<>>, out)
  /\ UNCHANGED <<listing, gp>>

\* self.populate_dataframe(tags_list)
Populate(tags_list) ==
  /\ phase = "Loaded"
  /\ dataframe' = populate_dataframe(dataframe, tags_list)
  /\ last' = Call("populate", <<>>, "", None, tags_list,
                  Outcome(dataframe', NoError, populate_prints(dataframe, tags_list), <<>>))
  /\ UNCHANGED <<listing, phase, loaded, gp>>

\* self.filter_dataframe_by_column_value(column, value)
Filter(column, value) ==
  /\ phase = "Loaded"
  /\ LET out == filter_call(dataframe, column, value)
     IN  /\ dataframe' = out.df
         /\ last' = Call("filter", <<>>, column, value, <<>>, out)
  /\ UNCHANGED <<listing, phase, loaded, gp>>

\* self.sort_dataframe_by_IPP_normal()
Sort ==
  /\ phase = "Loaded"
  /\ \E out \in sort_call(dataframe) :
        /\ dataframe' = out.df
        /\ last' = Call("sort", <<>>, "", None, <<>>, out)
  /\ UNCHANGED <<listing, phase, loaded, gp>>

\* self.get_pixel_data()
ToVolume ==
  /\ phase = "Loaded"
  /\ \E out \in get_pixel_data(dataframe) :
        /\ dataframe' = out.df
        /\ last' = Call("to_volume", <<>>, "", None, <<>>, out)
  /\ UNCHANGED <<listing, phase, loaded, gp>>

Next ==
  \/ \E e \in Extensions, r \in BOOLEAN : Load(e, r)
  \/ \E t \in TagLists : Populate(t)
  \/ \E c \in TagNames, v \in FilterValues : Filter(c, v)
  \/ Sort
  \/ ToVolume

Spec == Init /\ [][Next]_vars

(**************************** get_plane on its own **************************)

\* The cosines get_plane is called with, in tenths.
Cosines == {-10, -6, 0, 5, 10}

\* The arguments of get_plane: a dataset with any orientation over Cosines,
\* a dataset without orientation, and None.
PlaneInputs ==
  { Dataset([ImageOrientationPatient |-> Vec(o)], Arr(1, 1, 0)) : o \in [1..6 -> Cosines] }
    \cup { Dataset([SeriesInstanceUID |-> Str("A")], Arr(1, 1, 0)), NoDataset }

InitPlane ==
  /\ listing = <<>>
  /\ phase = "Plane"
  /\ dataframe = NoFrame
  /\ loaded = <<>>
  /\ last = NoCall
  /\ gp \in { [NoPlane EXCEPT !.dcm = d] : d \in PlaneInputs }

\* get_plane(dcm)
GetPlane ==
  /\ phase = "Plane"
  /\ ~gp.done
  /\ LET out == get_plane_call(gp.dcm)
     IN  gp' = [gp EXCEPT !.done = TRUE, !.plane = out.plane, !.err = out.err]
  /\ UNCHANGED <<listing, phase, dataframe, loaded, last>>

NextPlane == GetPlane

SpecPlane == InitPlane /\ [][NextPlane]_vars

(********************************* properties ******************************)

\* The slice has the element.
HasTag(ds, tag) == ds.ok /\ tag \in DOMAIN ds.tags

\* position_along_normal as the specification defines it: the dot product of
\* the position with the cross product of the row and column vectors.
PositionAlongNormal(ds) ==
  LET o == ds.tags["ImageOrientationPatient"].v
      p == ds.tags["ImagePositionPatient"].v
  IN    p[1] * (o[2] * o[6] - o[3] * o[5])
      + p[2] * (o[3] * o[4] - o[1] * o[6])
      + p[3] * (o[1] * o[5] - o[2] * o[4])

HasGeometry(ds) == HasTag(ds, "ImageOrientationPatient") /\ HasTag(ds, "ImagePositionPatient")

\* The rows are ascending in position along the normal.
Ascending(rows) ==
  \A i \in 1..Len(rows), j \in 1..Len(rows) :
     i < j => PositionAlongNormal(rows[i].DS) <= PositionAlongNormal(rows[j].DS)

\* Where the row labelled label stands in rows.
Pos(rows, label) == CHOOSE k \in 1..Len(rows) : rows[k].index = label

Labels(rows) == [i \in 1..Len(rows) |-> rows[i].index]

\* The call printed one of the two series warnings.
Warned(call) == call.log \cap {SeriesNotFound, MultipleSeries} # {}

\* C1: a successful sort_dataframe_by_IPP_normal leaves the held slices
\* ascending in position along the normal, and slices of equal position in the
\* relative order they had before the call.
C1_SortAscendingStable ==
  [][ (last'.op = "sort" /\ last'.ok) =>
        LET before == dataframe.rows
            after  == dataframe'.rows
        IN  /\ Len(after) = Len(before)
            /\ Ascending(after)
            /\ \A i \in 1..Len(before), j \in 1..Len(before) :
                  (i < j /\ PositionAlongNormal(before[i].DS) = PositionAlongNormal(before[j].DS))
                    => Pos(after, before[i].index) < Pos(after, before[j].index) ]_vars

\* The held slices have pairwise distinct positions along the normal (a
\* single slice needs none).
DistinctPositions(rows) ==
  \/ Len(rows) <= 1
  \/ /\ \A i \in 1..Len(rows) : HasGeometry(rows[i].DS)
     /\ \A i \in 1..Len(rows), j \in 1..Len(rows) :
           i # j => PositionAlongNormal(rows[i].DS) # PositionAlongNormal(rows[j].DS)

\* The plane the k-th held slice belongs in: one more than the number of
\* held slices that lie below it.
Rank(rows, k) ==
  IF Len(rows) = 1 THEN 1
  ELSE 1 + Cardinality({ m \in 1..Len(rows) :
                           PositionAlongNormal(rows[m].DS) < PositionAlongNormal(rows[k].DS) })

\* C2: when get_pixel_data returns for N >= 1 held slices of pairwise distinct
\* positions, the volume has N planes and plane i is the pixel buffer of the
\* slice with the i-th smallest position along the normal.
C2_VolumeRoundTrip ==
  [][ (last'.op = "to_volume" /\ last'.ok /\ DistinctPositions(dataframe.rows)) =>
        LET held == dataframe.rows
        IN  /\ Len(held) >= 1
            /\ Len(last'.volume) = Len(held)
            /\ \A k \in 1..Len(held) :
                  last'.volume[Rank(held, k)] = held[k].DS.pixel_array ]_vars

\* C2's case: a volume of at least two planes, of slices the call had to reorder.
C2_Witness ==
  /\ last.op = "to_volume" /\ last.ok
  /\ Len(last.volume) >= 2
  /\ DistinctPositions(dataframe.rows)
  /\ \E i \in 1..Len(dataframe.rows), j \in 1..Len(dataframe.rows) :
        i < j /\ dataframe.rows[i].index > dataframe.rows[j].index

\* C3: a get_pixel_data call that fails leaves self.dataframe (rows, order
\* and columns) as it was before the call.
C3_ToVolumeAllOrNothing ==
  [][ (last'.op = "to_volume" /\ ~last'.ok) => dataframe' = dataframe ]_vars

\* The error that names the tag that was never populated.
UnknownTag(tag) == Exc("KeyError", tag)

\* C4: filtering by a column that was never populated fails with the error
\* that identifies the column, and leaves the held collection as it was.
C4_FilterUnknownTag ==
  [][ (last'.op = "filter" /\ last'.column \notin dataframe.columns) =>
        (last'.err = UnknownTag(last'.column) /\ dataframe' = dataframe) ]_vars

\* The slice's element tag is present and equals value.
HasTagValue(ds, tag, value) == HasTag(ds, tag) /\ value # None /\ ds.tags[tag] = value

\* While nothing has sorted the dataframe, the held rows are rows of loaded,
\* in the order of loaded.
FilteredFromLoaded ==
  "ImagePositionPatient_normal" \notin dataframe.columns =>
     /\ \A i \in 1..Len(dataframe.rows), j \in 1..Len(dataframe.rows) :
           i < j => dataframe.rows[i].index < dataframe.rows[j].index
     /\ \A i \in 1..Len(dataframe.rows) :
           /\ dataframe.rows[i].index + 1 \in 1..Len(loaded)
           /\ loaded[dataframe.rows[i].index + 1].DS = dataframe.rows[i].DS

\* C5: filtering by a populated column keeps exactly the held slices whose
\* tag equals the value (a slice without the tag goes), in the order they
\* had; so, filter after filter, the held slices stay a sub-sequence of the
\* loaded ones.
C5_FilterNarrows ==
  [][ (last'.op = "filter" /\ last'.column \in dataframe.columns) =>
        LET column == last'.column
            value  == last'.value
        IN  /\ last'.ok
            /\ dataframe'.rows =
                 SelectSeq(dataframe.rows, LAMBDA r : HasTagValue(r.DS, column, value))
            /\ dataframe'.columns = dataframe.columns
            /\ FilteredFromLoaded' ]_vars

\* C5's case: a filter by a column populate_dataframe added, that let go of
\* a slice and kept at least two.
C5_Witness ==
  /\ last.op = "filter" /\ last.ok
  /\ last.column = "SeriesDescription"
  /\ Len(dataframe.rows) >= 2
  /\ Len(dataframe.rows) < Len(loaded)
  /\ "ImagePositionPatient_normal" \notin dataframe.columns

\* The files of the listing whose name contains the extension, case ignored.
Matching(files, extension) ==
  { files[i] : i \in { k \in 1..Len(files) : Contains(Lower(extension), Lower(files[k].name)) } }

\* C7: constructing on a listing without a matching name fails with the
\* empty-collection error of line 151, in both modes; with a match, the
\* single-random mode holds exactly one slice, of a matching file.
C7_LoadEmptyCollection ==
  last.op \in {"load", "load_random"} =>
     IF Matching(listing, last.dicom_extension) = {}
     THEN phase = "Failed" /\ last.err = EmptyDataframe
     ELSE /\ phase = "Loaded"
          /\ last.op = "load_random" =>
                /\ Len(dataframe.rows) = 1
                /\ \E f \in Matching(listing, last.dicom_extension) :
                      dataframe.rows[1].DS = f.ds

\* C8: populate_dataframe returns, and for every requested tag and every held
\* slice the column holds the slice's value, or None when the slice lacks the
\* tag or was not decoded; the held slices and their order stay.
C8_PopulateNeverAborts ==
  [][ last'.op = "populate" =>
        LET before == dataframe.rows
            after  == dataframe'.rows
            tags   == last'.tags_list
        IN  /\ last'.ok
            /\ Len(after) = Len(before)
            /\ \A i \in 1..Len(before) :
                  after[i].index = before[i].index /\ after[i].DS = before[i].DS
            /\ \A k \in 1..Len(tags) :
                  /\ tags[k] \in dataframe'.columns
                  /\ \A i \in 1..Len(before) :
                        /\ tags[k] \in DOMAIN after[i].cells
                        /\ after[i].cells[tags[k]] =
                             IF HasTag(before[i].DS, tags[k])
                             THEN before[i].DS.tags[tags[k]] ELSE None ]_vars

\* C8's case: two tags asked for, of slices one of which was not decoded,
\* one of which lacks the first tag, and one of which has the second.
C8_Witness ==
  /\ last.op = "populate"
  /\ Len(last.tags_list) >= 2
  /\ \E i \in 1..Len(dataframe.rows) : ~dataframe.rows[i].DS.ok
  /\ \E i \in 1..Len(dataframe.rows) :
        dataframe.rows[i].DS.ok /\ ~HasTag(dataframe.rows[i].DS, last.tags_list[1])
  /\ \E i \in 1..Len(dataframe.rows) :
        dataframe.rows[i].cells[last.tags_list[2]] # None

\* C9: sorting held slices that are already ascending leaves their order as
\* it is, whether sort_dataframe_by_IPP_normal is called or get_pixel_data
\* sorts on the way to a volume.
C9_SortIdempotent ==
  [][ (/\ last'.op \in {"sort", "to_volume"}
       /\ last'.ok
       /\ Len(dataframe.rows) > 1
       /\ Ascending(dataframe.rows)) =>
        Labels(dataframe'.rows) = Labels(dataframe.rows) ]_vars

\* C10: a get_pixel_data call that gets as far as the series check prints
\* the series warning exactly when more than one slice is held and some
\* slice has no SeriesInstanceUID or two slices differ in it.
C10_SeriesWarning ==
  [][ (last'.op = "to_volume" /\ \A i \in 1..Len(dataframe.rows) : dataframe.rows[i].DS.ok) =>
        LET held == dataframe.rows
        IN  Warned(last') <=>
              /\ Len(held) > 1
              /\ \/ \E i \in 1..Len(held) : ~HasTag(held[i].DS, "SeriesInstanceUID")
                 \/ \E i \in 1..Len(held), j \in 1..Len(held) :
                       /\ HasTag(held[i].DS, "SeriesInstanceUID")
                       /\ HasTag(held[j].DS, "SeriesInstanceUID")
                       /\ held[i].DS.tags["SeriesInstanceUID"]
                            # held[j].DS.tags["SeriesInstanceUID"] ]_vars

\* Every cosine is -1, 0 or 1.
AxisAligned(o) == \A i \in 1..6 : o[i] \in {-10, 0, 10}

\* The classification the specification gives an axis-aligned orientation:
\* the componentwise absolute cross product, x before y before z.
ExpectedPlane(o) ==
  LET u  == [i \in 1..6 |-> o[i] \div 10]
      nx == abs(u[2] * u[6] - u[3] * u[5])
      ny == abs(u[3] * u[4] - u[1] * u[6])
      nz == abs(u[1] * u[5] - u[2] * u[4])
  IN  IF nx = 1 THEN "sagittal"
      ELSE IF ny = 1 THEN "coronal"
      ELSE IF nz = 1 THEN "axial"
      ELSE "Oblique acquisition (hope for the best)."

\* C6: get_plane of an axis-aligned orientation is the expected plane
\* ([1,0,0,0,1,0] axial, [1,0,0,0,0,1] coronal, [0,1,0,0,0,1] sagittal), and
\* get_plane of a slice without orientation raises the KeyError of line 246.
C6_ClassifyPlane ==
  gp.done =>
     IF HasTag(gp.dcm, "ImageOrientationPatient")
     THEN LET o == gp.dcm.tags["ImageOrientationPatient"].v
          IN  /\ gp.err = NoError
              /\ AxisAligned(o) => gp.plane = ExpectedPlane(o)
              /\ o = <<10, 0, 0, 0, 10, 0>> => gp.plane = "axial"
              /\ o = <<10, 0, 0, 0, 0, 10>> => gp.plane = "coronal"
              /\ o = <<0, 10, 0, 0, 0, 10>> => gp.plane = "sagittal"
     ELSE gp.err = OrientationMissing /\ gp.plane = ""

\* C6's case: an axis-aligned orientation whose cross product has both x and z
\* of magnitude 1, classified by the x-first order.
C6_Witness ==
  /\ gp.done
  /\ HasTag(gp.dcm, "ImageOrientationPatient")
  /\ gp.dcm.tags["ImageOrientationPatient"].v = <<10, 0, 10, 0, 10, 0>>
  /\ gp.plane = "sagittal"

====
